---- MODULE Spec2Model ----
(***************************************************************************)
(* Zone tools of util-linux (blkreport, blkreset, blkzonecmd) and the ZDM  *)
(* superblock probe of libblkid, as state machines.                        *)
(*                                                                         *)
(* Unsigned C integers wider than 31 bits are kept as their bytes, most    *)
(* significant first (a uint64_t is a tuple of 8 bytes, a uint32_t of 4),  *)
(* so that truncation, wrap-around and byte swapping are the machine's.    *)
(* Memory is kept in address order; a load turns memory into a value       *)
(* according to the byte order of the host the tool was built for.         *)
(* The build is LP64: unsigned long is 64 bits wide.                       *)
(***************************************************************************)
EXTENDS Integers, Sequences, FiniteSets, TLC

VARIABLES
    pc,               \* position of the running tool
    argv,             \* the command line the tool was started with; for
                      \* probe_zdm, the device block it is offered
    host_be,          \* TRUE on a big-endian host (be64toh is the identity)
    opt,              \* main()'s locals set by getopt_long
    dev,              \* what the device nodes and the kernel answer
    blksize,          \* main(): BLKGETSIZE64 result (uint64_t)
    secsize,          \* main(): BLKSSZGET result (int)
    is_big_endian,    \* blkreport.c:278
    do_endian_probe,  \* blkreport.c:279
    length,           \* blkreport main(): uint32_t length
    zone_info,        \* do_report(): the report buffer after BLKREPORT
    iter,             \* print_zones(): loop counter
    count,            \* print_zones(): uint32_t count
    rc,               \* return code of the zone ioctl / do_report
    ioctls,           \* zone ioctls issued so far, with their arguments
    stdout,           \* lines printed so far
    stderr,           \* messages of err(), errx() and perror()
    status,           \* exit status of the tool, "running" before exit
    za,               \* blkzonecmd, blkreset main(): the ioctl argument
    zsize,            \* blkreset main(): unsigned long zsize
    blksectors,       \* blkreset main(): uint64_t blksectors
    zlen,             \* blkreset main(): uint64_t zlen
    sblk,             \* probe_zdm(): the superblock bytes in the probe buffer
    errno,            \* errno as probe_zdm() finds it
    calc,             \* zdm_crc32(): uint32_t calc
    icrc,             \* zdm_crc32(): uint32_t icrc
    pr                \* the values set on the blkid probe

\* The variables of blkreport alone, and those it never touches.
reportVars == <<is_big_endian, do_endian_probe, length, zone_info, iter,
                count, dev>>
resetVars == <<zsize, blksectors, zlen>>
probeVars == <<sblk, errno, calc, icrc, pr>>
notReportVars == <<za, resetVars, probeVars>>

vars == <<pc, argv, host_be, opt, blksize, secsize, rc, ioctls, stdout,
          stderr, status, za, reportVars, resetVars, probeVars>>

(***************************************************************************)
(* Bounds of the model.                                                    *)
(***************************************************************************)
\* Zone descriptors the kernel fills in at most in one report.
MaxZones == 8

(***************************************************************************)
(* Fixed-width unsigned arithmetic on bytes, most significant byte first.  *)
(***************************************************************************)
Byte == 0..255

RECURSIVE BitAnd(_, _)
BitAnd(a, b) ==
    IF a = 0 \/ b = 0 THEN 0
    ELSE (a % 2) * (b % 2) + 2 * BitAnd(a \div 2, b \div 2)

Reverse(s) == [i \in 1..Len(s) |-> s[Len(s) + 1 - i]]

\* The w-byte value of a natural n < 2^31.
RECURSIVE Num(_, _)
Num(n, w) == IF w = 0 THEN <<>> ELSE Append(Num(n \div 256, w - 1), n % 256)

U64(n) == Num(n, 8)
U32(n) == Num(n, 4)

Zero64 == U64(0)
\* ~0ul
AllOnes64 == [i \in 1..8 |-> 255]

IsZero(x) == \A i \in 1..Len(x) : x[i] = 0

\* x < y, unsigned, same width.
Less(x, y) ==
    \E i \in 1..Len(x) :
        /\ x[i] < y[i]
        /\ \A j \in 1..(i - 1) : x[j] = y[j]

\* The natural a value stands for, when it fits 31 bits.
RECURSIVE ToNat(_)
ToNat(x) == IF x = <<>> THEN 0
            ELSE 256 * ToNat(SubSeq(x, 1, Len(x) - 1)) + x[Len(x)]

\* x & y
And(x, y) == [i \in 1..Len(x) |-> BitAnd(x[i], y[i])]

\* x + y + cin modulo 2^(8w)
AddC(x, y, cin) ==
    LET w == Len(x)
        c[i \in 1..(w + 1)] ==
            IF i = w + 1 THEN cin ELSE (x[i] + y[i] + c[i + 1]) \div 256
    IN  [i \in 1..w |-> (x[i] + y[i] + c[i + 1]) % 256]

Add(x, y) == AddC(x, y, 0)

\* x - y modulo 2^(8w)
Sub(x, y) == AddC(x, [i \in 1..Len(y) |-> 255 - y[i]], 1)

\* x * y modulo 2^(8w)
Mul(x, y) ==
    LET w == Len(x)
        lx(p) == x[w - p]
        ly(p) == y[w - p]
        RECURSIVE Col(_, _)
        Col(p, i) == IF i > p THEN 0 ELSE lx(i) * ly(p - i) + Col(p, i + 1)
        t[p \in 0..(w - 1)] ==
            Col(p, 0) + (IF p = 0 THEN 0 ELSE t[p - 1] \div 256)
    IN  [i \in 1..w |-> t[w - i] % 256]

\* x / d and x % d for a divisor 0 < d < 2^22
RemSmall(x, d) ==
    LET r[i \in 0..Len(x)] == IF i = 0 THEN 0 ELSE (r[i - 1] * 256 + x[i]) % d
    IN  r
DivSmall(x, d) ==
    LET r == RemSmall(x, d)
    IN  [i \in 1..Len(x) |-> (r[i - 1] * 256 + x[i]) \div d]
ModSmall(x, d) == RemSmall(x, d)[Len(x)]

\* (uint32_t) x : the low four bytes of a uint64_t
Trunc32(x) == SubSeq(x, 5, 8)

\* (int) x for the small values used as flags: the low 32 bits, when they
\* fit 31 bits.
LowInt(x) == ToNat(SubSeq(x, Len(x) - 3, Len(x)))

(***************************************************************************)
(* Byte order.                                                             *)
(***************************************************************************)
\* A load of a multi-byte field: memory bytes to value, in host order.
Load(mem) == IF host_be THEN mem ELSE Reverse(mem)
\* A store: value to memory bytes, in host order.
Store(v) == IF host_be THEN v ELSE Reverse(v)

\* be64toh that leaves the bytes as they are on every host.
be64toh_noswap(v) == v

\* be64toh, be32toh of <endian.h>: a byte swap on a little-endian host.
be64toh(v) == IF host_be THEN v ELSE Reverse(v)
be32toh(v) == IF host_be THEN v ELSE Reverse(v)

endian64(in) == IF is_big_endian # 0 THEN be64toh(in) ELSE in
endian32(in) == IF is_big_endian # 0 THEN be32toh(in) ELSE in

(***************************************************************************)
(* blkreport: constants and tables.                                        *)
(***************************************************************************)
ZBC_REPORT_OPTION_MASK == 63
ZBC_ZONE_REPORTING_OPTION_OFFLINE == 7
ZBC_ZONE_REPORTING_OPTION_NEED_RESET_WP == 16
ZBC_ZONE_REPORTING_OPTION_NON_SEQWRITE == 17
ZBC_ZONE_REPORTING_OPTION_NON_WP == 63
ZBC_ZONE_REPORTING_OPTION_RESERVED == 64
MAX_REPORT_LEN == 524288
\* sizeof(struct bdev_zone_report), sizeof(struct bdev_zone_descriptor)
SizeofReport == 64
SizeofDescriptor == 64
EXIT_SUCCESS == 0
EXIT_FAILURE == 1

\* The zone lengths test_endian takes for little-endian data.
CanonicalLengths ==
    { U64(524288), U64(1048576), U64(2097152),
      U64(3145728), U64(4194304), U64(8388608) }

\* The zeroed descriptor memset leaves behind.
ZeroDescriptor ==
    [type |-> 0, flags |-> 0, length |-> Zero64,
     lba_start |-> Zero64, lba_wptr |-> Zero64]

\* info->descriptors[i] of a buffer of `size` bytes; the kernel wrote the
\* first Len(info.descriptors) entries, memset zeroed the rest.
Descriptor(info, i) ==
    IF i < Len(info.descriptors) THEN info.descriptors[i + 1]
    ELSE ZeroDescriptor

(***************************************************************************)
(* What the kernel may answer to BLKREPORT.                                *)
(***************************************************************************)
Min(a, b) == IF a < b THEN a ELSE b

\* max_count of print_zones, also the most descriptors a buffer holds.
Capacity(size) == (size - SizeofReport) \div SizeofDescriptor

\* Lengths of the first zone: a canonical one, a canonical one byte-swapped
\* (2^44), and one that is neither.
FirstLengths ==
    { U64(1048576), <<0, 0, 16, 0, 0, 0, 0, 0>>, U64(74565) }

\* The i-th zone (from 0) of a device whose first zone has length `first`
\* and whose zone `zero` is reported with length 0.
LogicalZone(i, first, zero) ==
    [type      |-> 1 + (i % 3),
     flags     |-> 16 * ((i + 1) % 16) + (i % 4),
     length    |-> IF i = zero THEN Zero64
                   ELSE IF i = 0 THEN first ELSE U64(1048576),
     lba_start |-> Mul(U64(i), U64(1048576)),
     lba_wptr  |-> Add(Mul(U64(i), U64(1048576)), U64(16 * i))]

\* Declared descriptor counts, as uint32 values.
DeclaredCounts ==
    { U32(0), U32(2), U32(MaxZones + 1), <<255, 255, 255, 255>> }

LogicalReports(size) ==
    { [descriptor_count |-> c,
       same_field       |-> 1,
       maximum_lba      |-> <<0, 0, 0, 0, 127, 255, 255, 255>>,
       zones            |-> [i \in 1..n |-> LogicalZone(i - 1, first, zero)]] :
      c \in DeclaredCounts,
      n \in {0, 1, 2, Min(MaxZones, Capacity(size))},
      first \in FirstLengths,
      zero \in {1, MaxZones + 1} }

\* The bytes a field of value v has in the report, in wire format `wire`.
Encode(v, wire) == IF wire = "be" THEN v ELSE Store(v)

EncodeReport(r, wire) ==
    [descriptor_count |-> Encode(r.descriptor_count, wire),
     same_field       |-> r.same_field,
     maximum_lba      |-> Encode(r.maximum_lba, wire),
     descriptors      |->
        [i \in 1..Len(r.zones) |->
            [type      |-> r.zones[i].type,
             flags     |-> r.zones[i].flags,
             length    |-> Encode(r.zones[i].length, wire),
             lba_start |-> Encode(r.zones[i].lba_start, wire),
             lba_wptr  |-> Encode(r.zones[i].lba_wptr, wire)]]]

\* The all-zero report of a buffer the kernel has not written.
NoReport ==
    [descriptor_count |-> U32(0), same_field |-> 0, maximum_lba |-> Zero64,
     zones |-> <<>>]

Wires == {"be", "native"}

\* What ioctl() may return for a zone command: -1 for a failure, 0, and a
\* positive value, which the tools do not take for a failure (they test
\* rc == -1, do_report tests rc != -1).
IoctlResults == {-1, 0, 1}
\* Devices: size in bytes (BLKGETSIZE64) and logical sector size (BLKSSZGET).
Devices ==
    { [size |-> U64(1048576), secsize |-> 512],
      [size |-> <<0, 0, 0, 16, 0, 0, 0, 0>>, secsize |-> 4096] }

(***************************************************************************)
(* blkreport: command lines.  None stands for an option not given.         *)
(***************************************************************************)
\* An option that was not given, a variable that was not assigned yet.
None == <<>>

NoOptions ==
    [l |-> None, z |-> None, r |-> None, e |-> None,
     F |-> FALSE, v |-> FALSE]

LengthArgs ==
    { U64(0), U64(512), U64(1000), U64(1024), U64(524988),
      <<0, 0, 0, 1, 0, 0, 0, 0>>, <<0, 0, 0, 1, 0, 0, 4, 0>>, AllOnes64 }
OffsetArgs == { U64(4096), U64(100), <<1, 0, 0, 0, 0, 0, 0, 0>> }
ReportOptionArgs ==
    { U64(7), U64(8), U64(17), U64(18), U64(63), U64(64), U64(127),
      U64(128), U64(192), U64(256) }
EndianArgs == { U64(0), U64(1), U64(2) }

ReportCommandLines ==
    {NoOptions}
    \cup { [NoOptions EXCEPT !.l = x] : x \in LengthArgs }
    \cup { [NoOptions EXCEPT !.z = x] : x \in OffsetArgs }
    \cup { [NoOptions EXCEPT !.r = x] : x \in ReportOptionArgs }
    \cup { [NoOptions EXCEPT !.e = x] : x \in EndianArgs }
    \cup { [NoOptions EXCEPT !.F = TRUE, !.v = TRUE, !.e = U64(1)] }

(***************************************************************************)
(* blkreport: pure functions.                                              *)
(***************************************************************************)
\* is_report_option_valid(ropt), TRUE for a return value of 1.
is_report_option_valid(ropt) ==
    LET _opt == BitAnd(ropt[8], ZBC_REPORT_OPTION_MASK)
    IN  IF BitAnd(ropt[8], ZBC_ZONE_REPORTING_OPTION_RESERVED) # 0 THEN FALSE
        ELSE IF _opt <= ZBC_ZONE_REPORTING_OPTION_OFFLINE THEN TRUE
        ELSE _opt \in { ZBC_ZONE_REPORTING_OPTION_NEED_RESET_WP,
                        ZBC_ZONE_REPORTING_OPTION_NON_SEQWRITE,
                        ZBC_ZONE_REPORTING_OPTION_NON_WP }

\* main(), lines 570-574, on the uint32_t length.
ClampLength(len) ==
    LET rounded == Mul(DivSmall(len, 512), U32(512))
        raised  == IF Less(rounded, U32(512)) THEN U32(512) ELSE rounded
    IN  IF Less(U32(MAX_REPORT_LEN), raised) THEN U32(MAX_REPORT_LEN)
        ELSE raised

\* test_endian with the two outcomes exchanged.
test_endian_flipped(info) ==
    LET len == Load(Descriptor(info, 0).length)
    IN  IF do_endian_probe = 0 THEN is_big_endian
        ELSE IF len \in CanonicalLengths THEN 1 ELSE 0

\* The value test_endian leaves in is_big_endian.
test_endian(info) ==
    LET len == Load(Descriptor(info, 0).length)
    IN  IF do_endian_probe = 0 THEN is_big_endian
        ELSE IF len \in CanonicalLengths THEN 0 ELSE 1

\* ~0ul >> 16
MaxLbaMask == <<0, 0, 255, 255, 255, 255, 255, 255>>

\* A loop that does not stop at a zero length.
ZoneBreakNever(info, i) == FALSE

\* print_zones line 363: the loop breaks at descriptor i.
ZoneBreak(info, i) == IsZero(endian64(Load(Descriptor(info, i).length)))

\* The text tables of lines 262-274 and 317-327.
same_text ==
    << "all zones are different", "all zones are same size",
       "last zone differs by size", "all zones same size - different types" >>
type_text ==
    << "RESERVED", "CONVENTIONAL", "SEQ_WRITE_REQUIRED",
       "SEQ_WRITE_PREFERRED" >>
condition_str ==
    << "cv", "e0", "Oi", "Oe", "Cl", "x5", "x6", "x7", "x8", "x9", "xA",
       "xB", "ro", "fu", "OL" >>

\* What printing table[i] with %s may give.  An index past the end of the
\* table reads whatever follows the array and takes it for a pointer to a
\* string: some stray bytes are printed, or the process is killed.
Stray == "(stray bytes)"
Fault == "(killed)"
TableRead(table, i) ==
    IF i < Len(table) THEN {table[i + 1]} ELSE {Stray, Fault}

\* The line the loop body of print_zones prints for descriptor i.
ZoneLine(info, i) ==
    LET entry == Descriptor(info, i)
        type  == BitAnd(entry.type, 15)
        flags == entry.flags
        start == endian64(Load(entry.lba_start))
        wp    == endian64(Load(entry.lba_wptr))
        cond  == BitAnd(flags, 240) \div 16
        len   == endian64(Load(entry.length))
    IN  [kind |-> "zone", index |-> i, start |-> start, len |-> len,
              wptr |-> Sub(wp, start), reset |-> BitAnd(flags, 1),
              nonseq |-> BitAnd(flags, 2) \div 2, cond |-> cond,
              type |-> type]

(***************************************************************************)
(* blkreport: the run of main().                                           *)
(***************************************************************************)
\* The variables a tool does not have keep these values.
NoZoneAction ==
    /\ za = [sector |-> Zero64, nr_sectors |-> Zero64]
    /\ zsize = Zero64
    /\ blksectors = Zero64
    /\ zlen = Zero64
NoProbe ==
    /\ sblk = <<>>
    /\ errno = 0
    /\ calc = U32(0)
    /\ icrc = U32(0)
    /\ pr = [UUID |-> <<>>]
NoReportRun ==
    /\ dev = [wire |-> "none", report |-> NoReport]
    /\ is_big_endian = 0
    /\ do_endian_probe = 1
    /\ length = U32(MAX_REPORT_LEN)
    /\ zone_info = EncodeReport(NoReport, "native")
    /\ iter = 0
    /\ count = None

\* The state main() starts in.
Started ==
    /\ pc = "getopt"
    /\ host_be \in BOOLEAN
    /\ blksize = None
    /\ secsize = 0
    /\ rc = 0
    /\ ioctls = <<>>
    /\ stdout = <<>>
    /\ stderr = <<>>
    /\ status = "running"

ReportInit ==
    /\ Started
    /\ argv \in ReportCommandLines
    /\ opt = [ropt |-> Zero64, offset |-> Zero64, fua |-> 0, verbose |-> 0]
    /\ NoReportRun
    /\ NoZoneAction
    /\ NoProbe

\* err(), errx(): the run ends with EXIT_FAILURE.
Fail(msg) ==
    /\ status' = EXIT_FAILURE
    /\ stderr' = Append(stderr, msg)
    /\ pc' = "exit"

\* The step goes on to position p.
Goto(p) ==
    /\ pc' = p
    /\ UNCHANGED <<status, stderr>>

\* The getopt_long loop, lines 500-535.
ReportGetopt ==
    /\ pc = "getopt"
    /\ opt' = [ropt    |-> IF argv.r = None THEN opt.ropt ELSE argv.r,
               offset  |-> IF argv.z = None THEN opt.offset ELSE argv.z,
               fua     |-> IF argv.F THEN 1 ELSE opt.fua,
               verbose |-> IF argv.v THEN 1 ELSE opt.verbose]
    /\ length' = IF argv.l = None THEN length ELSE Trunc32(argv.l)
    /\ do_endian_probe' = IF argv.e = None THEN do_endian_probe ELSE 0
    /\ is_big_endian' = IF argv.e = None THEN is_big_endian
                        ELSE LowInt(argv.e)
    /\ Goto("open")
    /\ UNCHANGED <<argv, host_be, dev, blksize, secsize, zone_info, iter,
                   count, rc, ioctls, stdout, notReportVars>>

\* open, fstat, S_ISBLK, BLKGETSIZE64, BLKSSZGET: lines 547-559.
ReportOpenDevice ==
    /\ pc = "open"
    /\ \E ok \in BOOLEAN, d \in Devices :
        IF ok
        THEN /\ blksize' = d.size
             /\ secsize' = d.secsize
             /\ Goto("check_offset")
        ELSE /\ Fail("cannot open or query the device")
             /\ UNCHANGED <<blksize, secsize>>
    /\ UNCHANGED <<argv, host_be, opt, rc, ioctls, stdout, reportVars,
                   notReportVars>>

\* Lines 561-568.
ReportCheckOffset ==
    /\ pc = "check_offset"
    /\ IF ModSmall(opt.offset, secsize) # 0
       THEN Fail("offset is not aligned to sector size")
       ELSE IF Less(blksize, opt.offset)
       THEN Fail("offset is greater than device size")
       ELSE Goto("clamp")
    /\ UNCHANGED <<argv, host_be, opt, blksize, secsize, rc, ioctls, stdout,
                   reportVars, notReportVars>>

\* Lines 570-574.
ReportClampLength ==
    /\ pc = "clamp"
    /\ length' = ClampLength(length)
    /\ Goto("validate")
    /\ UNCHANGED <<argv, host_be, opt, dev, blksize, secsize, is_big_endian,
                   do_endian_probe, zone_info, iter, count, rc, ioctls,
                   stdout, notReportVars>>

\* Lines 576-577.
ReportValidateOption ==
    /\ pc = "validate"
    /\ IF is_report_option_valid(opt.ropt)
       THEN Goto("do_report")
       ELSE Fail("invalid report option for device")
    /\ UNCHANGED <<argv, host_be, opt, blksize, secsize, rc, ioctls, stdout,
                   reportVars, notReportVars>>

\* do_report() up to the ioctl, lines 399-413 and 421-423: malloc may fail;
\* the kernel fails the ioctl or fills the buffer with a report.
ReportIoctl ==
    /\ pc = "do_report"
    /\ \E malloc_ok \in BOOLEAN, res \in IoctlResults, wire \in Wires,
          r \in LogicalReports(ToNat(length)) :
        IF ~malloc_ok
        THEN /\ rc' = -4
             /\ pc' = "return"
             /\ UNCHANGED <<dev, zone_info, ioctls, stderr>>
        ELSE /\ ioctls' = Append(ioctls,
                    [request |-> "BLKREPORT",
                     report_option |-> opt.ropt[8],
                     return_page_count |-> length,
                     zone_locator_lba |-> opt.offset,
                     force_unit_access |-> opt.fua])
             /\ rc' = res
             /\ IF res # -1
                THEN /\ dev' = [wire |-> wire, report |-> r]
                     /\ zone_info' = EncodeReport(r, wire)
                     /\ pc' = "test_endian"
                     /\ UNCHANGED stderr
                ELSE /\ pc' = "return"
                     /\ stderr' = Append(stderr, "ERR: errno")
                     /\ UNCHANGED <<dev, zone_info>>
    /\ UNCHANGED <<argv, host_be, opt, blksize, secsize, is_big_endian,
                   do_endian_probe, length, iter, count, stdout, status,
                   notReportVars>>

\* do_report() lines 414-418: test_endian and the verbose line.
ReportTestEndian ==
    /\ pc = "test_endian"
    /\ is_big_endian' = test_endian(zone_info)
    /\ stdout' =
         LET detected ==
                 IF do_endian_probe # 0 /\ test_endian(zone_info) = 0
                 THEN << [kind |-> "detected",
                          len |-> Load(Descriptor(zone_info, 0).length)] >>
                 ELSE <<>>
             big == test_endian(zone_info) # 0
             found ==
                 IF opt.verbose # 0
                 THEN << [kind |-> "found",
                          count |-> IF big
                                    THEN be32toh(Load(zone_info.descriptor_count))
                                    ELSE Load(zone_info.descriptor_count)] >>
                 ELSE <<>>
         IN  stdout \o detected \o found
    /\ Goto("print_zones")
    /\ UNCHANGED <<argv, host_be, opt, dev, blksize, secsize,
                   do_endian_probe, length, zone_info, iter, count, rc,
                   ioctls, notReportVars>>

\* max_count with the envelope not subtracted.
max_count_whole_buffer(size) == U32(size \div SizeofDescriptor)

\* max_count of print_zones, lines 346-347, for a buffer of `size` bytes.
max_count(size) == U32((size - SizeofReport) \div SizeofDescriptor)

\* The process is killed by a signal: nothing more is printed, main() does
\* not return.
Killed ==
    /\ pc' = "killed"
    /\ status' = "SIGSEGV"
    /\ UNCHANGED <<stdout, stderr>>

\* print_zones() lines 336-352: the header line and the truncation.
ReportPrintHeader ==
    /\ pc = "print_zones"
    /\ LET declared  == endian32(Load(zone_info.descriptor_count))
           same_code == BitAnd(zone_info.same_field, 15)
       IN  \E text \in TableRead(same_text, same_code) :
            LET header == [kind |-> "header", count |-> declared,
                           same_code |-> same_code, same_text |-> text,
                           max_lba |->
                               endian64(And(Load(zone_info.maximum_lba),
                                            MaxLbaMask))]
            IN  IF text = Fault
                THEN Killed /\ UNCHANGED <<count, iter>>
                ELSE /\ IF Less(max_count(ToNat(length)), declared)
                        THEN /\ count' = max_count(ToNat(length))
                             /\ stdout' = stdout \o
                                  << header,
                                     [kind |-> "truncating",
                                      max_count |-> max_count(ToNat(length)),
                                      count |-> declared] >>
                        ELSE /\ count' = declared
                             /\ stdout' = Append(stdout, header)
                     /\ iter' = 0
                     /\ Goto("loop")
    /\ UNCHANGED <<argv, host_be, opt, dev, blksize, secsize, is_big_endian,
                   do_endian_probe, length, zone_info, rc, ioctls,
                   notReportVars>>

\* print_zones() lines 354-371: one pass of the loop, or its end.
ReportPrintZone ==
    /\ pc = "loop"
    /\ IF Less(U32(iter), count) /\ ~ZoneBreak(zone_info, iter)
       THEN LET line == ZoneLine(zone_info, iter)
            IN  \E ctext \in TableRead(condition_str, BitAnd(line.cond, 15)),
                   ttext \in TableRead(type_text, line.type) :
                    IF Fault \in {ctext, ttext}
                    THEN Killed /\ UNCHANGED iter
                    ELSE /\ stdout' = Append(stdout,
                                [kind |-> "zone", index |-> line.index,
                                 start |-> line.start, len |-> line.len,
                                 wptr |-> line.wptr, reset |-> line.reset,
                                 nonseq |-> line.nonseq, cond |-> line.cond,
                                 zcond_str |-> ctext, type |-> line.type,
                                 type_str |-> ttext])
                         /\ iter' = iter + 1
                         /\ pc' = "loop"
                         /\ UNCHANGED <<status, stderr>>
       ELSE /\ pc' = "return"
            /\ UNCHANGED <<stdout, iter, status, stderr>>
    /\ UNCHANGED <<argv, host_be, opt, dev, blksize, secsize, is_big_endian,
                   do_endian_probe, length, zone_info, count, rc, ioctls,
                   notReportVars>>

\* A main() that calls do_report again after a failure.
ReportReturnRetry ==
    /\ pc = "return"
    /\ IF rc # 0
       THEN /\ pc' = "do_report"
            /\ UNCHANGED <<status, stderr>>
       ELSE /\ status' = EXIT_SUCCESS
            /\ pc' = "exit"
            /\ UNCHANGED stderr
    /\ UNCHANGED <<argv, host_be, opt, blksize, secsize, rc, ioctls, stdout,
                   reportVars, notReportVars>>

\* do_report() returns rc; main() lines 579-583.
ReportReturn ==
    /\ pc = "return"
    /\ IF rc # 0
       THEN Fail("BLKREPORT ioctl failed")
       ELSE /\ status' = EXIT_SUCCESS
            /\ pc' = "exit"
            /\ UNCHANGED stderr
    /\ UNCHANGED <<argv, host_be, opt, blksize, secsize, rc, ioctls, stdout,
                   reportVars, notReportVars>>

ReportNext ==
    \/ ReportGetopt
    \/ ReportOpenDevice
    \/ ReportCheckOffset
    \/ ReportClampLength
    \/ ReportValidateOption
    \/ ReportIoctl
    \/ ReportTestEndian
    \/ ReportPrintHeader
    \/ ReportPrintZone
    \/ ReportReturn

SpecReport == ReportInit /\ [][ReportNext]_vars

(***************************************************************************)
(* blkreport: the decoding of a report, from the return of BLKREPORT in    *)
(* do_report (line 413) on, for reports with every zone type, zone         *)
(* condition and same code a device may put into the 4-bit fields.         *)
(***************************************************************************)
\* Zones in such a report.
DecodeZones == 4

\* same_field values: the four defined codes' ends, a reserved code, and a
\* reserved code with the upper bits set.
SameFields == {0, 3, 4, 143}

\* A report whose zone i (from 1) has zone condition (base + i - 1) % 16
\* and a zone type of enum blk_zone_type, 0 .. BLK_ZONE_TYPE_UNKNOWN.
RawReports ==
    { [descriptor_count |-> U32(DecodeZones),
       same_field       |-> same,
       maximum_lba      |-> <<0, 0, 0, 0, 127, 255, 255, 255>>,
       zones            |->
          [i \in 1..DecodeZones |->
              [type      |-> (i + base \div 4) % 5,
               flags     |-> 16 * ((base + i - 1) % 16) + (i % 4),
               length    |-> U64(1048576),
               lba_start |-> Mul(U64(i - 1), U64(1048576)),
               lba_wptr  |-> Add(Mul(U64(i - 1), U64(1048576)), U64(8))]]] :
      same \in SameFields, base \in {0, 4, 8, 12} }

DecodeInit ==
    /\ pc = "test_endian"
    /\ host_be \in BOOLEAN
    /\ argv \in {NoOptions} \cup { [NoOptions EXCEPT !.e = x] : x \in {U64(0), U64(1)} }
    /\ opt = [ropt |-> Zero64, offset |-> Zero64, fua |-> 0, verbose |-> 0]
    /\ blksize = <<0, 0, 0, 16, 0, 0, 0, 0>>
    /\ secsize = 4096
    /\ do_endian_probe = (IF argv.e = None THEN 1 ELSE 0)
    /\ is_big_endian = (IF argv.e = None THEN 0 ELSE LowInt(argv.e))
    /\ length = U32(MAX_REPORT_LEN)
    /\ \E wire \in Wires, r \in RawReports :
        /\ dev = [wire |-> wire, report |-> r]
        /\ zone_info = EncodeReport(r, wire)
    /\ iter = 0
    /\ count = None
    /\ rc = 0
    /\ ioctls = << [request |-> "BLKREPORT", report_option |-> 0,
                    return_page_count |-> length,
                    zone_locator_lba |-> Zero64, force_unit_access |-> 0] >>
    /\ stdout = <<>>
    /\ stderr = <<>>
    /\ status = "running"
    /\ NoZoneAction
    /\ NoProbe

DecodeNext ==
    \/ ReportTestEndian
    \/ ReportPrintHeader
    \/ ReportPrintZone
    \/ ReportReturn

SpecDecode == DecodeInit /\ [][DecodeNext]_vars

(***************************************************************************)
(* blkzonecmd.                                                             *)
(***************************************************************************)
ZONE_ACTION_CLOSE == 1
ZONE_ACTION_FINISH == 2
ZONE_ACTION_OPEN == 3
ZONE_ACTION_RESET == 4

\* Command lines: -z <lba>, one of -o -c -f -r (act 0: none of them), -a,
\* -F, -v.
ZoneArgs ==
    { U64(0), U64(512), U64(4096), U64(100), AllOnes64,
      <<1, 0, 0, 0, 0, 0, 0, 0>> }
ZoneCmdCommandLines ==
    { [z |-> z, act |-> act, a |-> a, F |-> FALSE, v |-> FALSE] :
        z \in {None} \cup ZoneArgs,
        act \in {0, ZONE_ACTION_RESET},
        a \in BOOLEAN }
    \cup
    { [z |-> z, act |-> act, a |-> FALSE, F |-> TRUE, v |-> TRUE] :
        z \in {None, U64(4096)},
        act \in {ZONE_ACTION_CLOSE, ZONE_ACTION_FINISH, ZONE_ACTION_OPEN} }

ZoneCmdInit ==
    /\ Started
    /\ argv \in ZoneCmdCommandLines
    /\ opt = [zone_lba |-> Zero64, act |-> ZONE_ACTION_OPEN, fua |-> 0,
              all |-> 0, verbose |-> 0]
    /\ za = [zone_locator_lba |-> Zero64, action |-> 0, all_zones |-> 0,
             force_unit_access |-> 0]
    /\ zsize = Zero64
    /\ blksectors = Zero64
    /\ zlen = Zero64
    /\ NoReportRun
    /\ NoProbe

\* The getopt_long loop, lines 161-198.
ZoneCmdGetopt ==
    /\ pc = "getopt"
    /\ opt' = [zone_lba |-> IF argv.z = None THEN opt.zone_lba ELSE argv.z,
               act      |-> IF argv.act = 0 THEN opt.act ELSE argv.act,
               fua      |-> IF argv.F THEN 1 ELSE opt.fua,
               all      |-> IF argv.a THEN 1 ELSE opt.all,
               verbose  |-> IF argv.v THEN 1 ELSE opt.verbose]
    /\ Goto("open")
    /\ UNCHANGED <<argv, host_be, blksize, secsize, rc, ioctls, stdout, za,
                   reportVars, resetVars, probeVars>>

\* open, fstat, S_ISBLK, BLKGETSIZE64, BLKSSZGET: lines 210-222.
ZoneCmdOpenDevice ==
    /\ pc = "open"
    /\ \E ok \in BOOLEAN, d \in Devices :
        IF ok
        THEN /\ blksize' = d.size
             /\ secsize' = d.secsize
             /\ Goto("check_offset")
        ELSE /\ Fail("cannot open or query the device")
             /\ UNCHANGED <<blksize, secsize>>
    /\ UNCHANGED <<argv, host_be, opt, rc, ioctls, stdout, za, reportVars,
                   resetVars, probeVars>>

\* Lines 224-233.
ZoneCmdCheckOffset ==
    /\ pc = "check_offset"
    /\ IF opt.zone_lba # AllOnes64 /\ ModSmall(opt.zone_lba, secsize) # 0
       THEN Fail("offset is not aligned to sector size")
       ELSE IF opt.zone_lba # AllOnes64 /\ Less(blksize, opt.zone_lba)
       THEN Fail("offset is greater than device size")
       ELSE Goto("action")
    /\ UNCHANGED <<argv, host_be, opt, blksize, secsize, rc, ioctls, stdout,
                   za, reportVars, resetVars, probeVars>>

\* The all-zones test that exempts no request.
AllZonesConflictNever(a) == FALSE

\* Line 246: za.all_zones && za.zone_locator_lba
AllZonesConflict(a) == a.all_zones # 0 /\ ~IsZero(a.zone_locator_lba)

\* The switch of lines 235-257; getopt leaves only the four zone actions in
\* act, so the default branch is never taken.
ZoneCmdAction ==
    /\ pc = "action"
    /\ LET sentinel == opt.zone_lba = AllOnes64
           target == [za EXCEPT
                        !.zone_locator_lba =
                            IF sentinel THEN Zero64 ELSE opt.zone_lba,
                        !.all_zones = IF sentinel THEN 1 ELSE opt.all]
           request == [target EXCEPT !.action = opt.act,
                                     !.force_unit_access = opt.fua]
       IN  IF AllZonesConflict(target)
           THEN /\ za' = target
                /\ Fail("All expects zone to be 0")
                /\ UNCHANGED <<rc, ioctls>>
           ELSE /\ za' = request
                /\ ioctls' = Append(ioctls, [request |-> "BLKZONEACTION",
                                             arg |-> request])
                /\ \E res \in IoctlResults :
                     /\ rc' = res
                     /\ IF res = -1
                        THEN Fail("BLKZONEACTION ioctl failed")
                        ELSE Goto("finish")
    /\ UNCHANGED <<argv, host_be, opt, blksize, secsize, stdout, reportVars,
                   resetVars, probeVars>>

\* Lines 259-263.
ZoneCmdFinish ==
    /\ pc = "finish"
    /\ stdout' = IF opt.verbose # 0 /\ ~IsZero(opt.zone_lba)
                 THEN Append(stdout, [kind |-> "stats", act |-> opt.act,
                                      lba |-> opt.zone_lba])
                 ELSE stdout
    /\ status' = EXIT_SUCCESS
    /\ pc' = "exit"
    /\ UNCHANGED <<argv, host_be, opt, blksize, secsize, rc, ioctls, stderr,
                   za, reportVars, resetVars, probeVars>>

ZoneCmdNext ==
    \/ ZoneCmdGetopt
    \/ ZoneCmdOpenDevice
    \/ ZoneCmdCheckOffset
    \/ ZoneCmdAction
    \/ ZoneCmdFinish

SpecZoneCmd == ZoneCmdInit /\ [][ZoneCmdNext]_vars

\* The zone LBA the command line asks for (0 without -z).
RequestedLba == IF argv.z = None THEN Zero64 ELSE argv.z

\* C4 (as claimed): a request with -a and a non-zero zone LBA never reaches
\* BLKZONEACTION and ends in a failure exit; with -a and zone LBA 0 a run
\* that got its device passes validation and issues the ioctl with
\* all_zones = 1 and zone_locator_lba = 0.
C4_AllZonesRejectsEveryLba ==
    /\ (argv.a /\ ~IsZero(RequestedLba)) =>
          /\ ioctls = <<>>
          /\ pc = "exit" => status = EXIT_FAILURE
    /\ (argv.a /\ IsZero(RequestedLba) /\ pc \in {"finish", "exit"}
        /\ blksize # None) =>
          /\ Len(ioctls) = 1
          /\ ioctls[1].arg.all_zones = 1
          /\ ioctls[1].arg.zone_locator_lba = Zero64

\* C4 (amended): the same, for every non-zero zone LBA but the all-ones
\* value ~0ul, which main() takes for "all zones" and issues with
\* all_zones = 1 and zone_locator_lba = 0.
C4_AllZonesRejectsLbaButSentinel ==
    /\ (argv.a /\ ~IsZero(RequestedLba) /\ RequestedLba # AllOnes64) =>
          /\ ioctls = <<>>
          /\ pc = "exit" => status = EXIT_FAILURE
    /\ (argv.a /\ (IsZero(RequestedLba) \/ RequestedLba = AllOnes64)
        /\ pc \in {"finish", "exit"} /\ blksize # None) =>
          /\ Len(ioctls) = 1
          /\ ioctls[1].arg.all_zones = 1
          /\ ioctls[1].arg.zone_locator_lba = Zero64

\* C4 witness: -a with zone LBA 4096 passed the offset checks and was
\* rejected by the all-zones test, nothing issued.
C4_Witness ==
    /\ argv.a /\ RequestedLba = U64(4096)
    /\ pc = "exit" /\ status = EXIT_FAILURE
    /\ stderr = <<"All expects zone to be 0">>
    /\ ioctls = <<>>

(***************************************************************************)
(* blkreset.                                                               *)
(***************************************************************************)
\* Command lines: -z <sector>, -c <count>.
ResetZoneArgs ==
    { U64(524288), U64(3145728), U64(4194304), U64(6291456), U64(256),
      <<128, 0, 0, 0, 0, 0, 0, 0>> }
ResetCountArgs == { U64(0), U64(2), <<0, 0, 32, 0, 0, 0, 0, 0>> }
ResetCommandLines ==
    { [z |-> z, c |-> c] :
        z \in {None} \cup ResetZoneArgs, c \in {None} \cup ResetCountArgs }

\* What queue/chunk_sectors may hold; 0 stands for a lookup that failed.
ZoneSizes == { U64(0), U64(524288), U64(3145728) }
\* Device sizes in bytes: 1 MiB, 64 GiB, 2^56.
ResetDeviceSizes ==
    { U64(1048576), <<0, 0, 0, 16, 0, 0, 0, 0>>, <<1, 0, 0, 0, 0, 0, 0, 0>> }

ResetInit ==
    /\ Started
    /\ argv \in ResetCommandLines
    /\ opt = [zsector |-> Zero64, zcount |-> U64(1)]
    /\ NoZoneAction
    /\ NoReportRun
    /\ NoProbe

\* The getopt_long loop, lines 225-245.
ResetGetopt ==
    /\ pc = "getopt"
    /\ opt' = [zsector |-> IF argv.z = None THEN opt.zsector ELSE argv.z,
               zcount  |-> IF argv.c = None THEN opt.zcount ELSE argv.c]
    /\ Goto("zone_size")
    /\ UNCHANGED <<argv, host_be, blksize, secsize, rc, ioctls, stdout, za,
                   reportVars, resetVars, probeVars>>

\* A zone size test that lets 0 through.
ZoneSizeUnknownNever(z) == FALSE

\* Line 258: zsize == 0
ZoneSizeUnknown(z) == IsZero(z)

\* Lines 257-259: get_zone_size() and its test.
ResetGetZoneSize ==
    /\ pc = "zone_size"
    /\ \E z \in ZoneSizes :
        /\ zsize' = z
        /\ IF ZoneSizeUnknown(z)
           THEN Fail("Unable to determine zone size")
           ELSE Goto("open")
    /\ UNCHANGED <<argv, host_be, opt, blksize, secsize, rc, ioctls, stdout,
                   za, blksectors, zlen, reportVars, probeVars>>

\* open, fstat, S_ISBLK, BLKGETSIZE64: lines 261-271.
ResetOpenDevice ==
    /\ pc = "open"
    /\ \E ok \in BOOLEAN, size \in ResetDeviceSizes :
        IF ok
        THEN /\ blksize' = size
             /\ Goto("check")
        ELSE /\ Fail("cannot open or query the device")
             /\ UNCHANGED blksize
    /\ UNCHANGED <<argv, host_be, opt, secsize, rc, ioctls, stdout, za,
                   reportVars, resetVars, probeVars>>

\* Line 276: zsector & (zsize - 1)
Misaligned(zsector, size) == ~IsZero(And(zsector, Sub(size, U64(1))))

\* Line 273: blksize << 9
Sectors(size) == Mul(size, U64(512))

\* Lines 273-281.
ResetCheck ==
    /\ pc = "check"
    /\ blksectors' = Sectors(blksize)
    /\ IF Misaligned(opt.zsector, zsize)
       THEN Fail("zone is not aligned to zone size")
       ELSE IF Less(Sectors(blksize), opt.zsector)
       THEN Fail("zone is too large for device")
       ELSE Goto("reset")
    /\ UNCHANGED <<argv, host_be, opt, blksize, secsize, rc, ioctls, stdout,
                   za, zsize, zlen, reportVars, probeVars>>

\* Lines 283-291.
ResetIoctl ==
    /\ pc = "reset"
    /\ LET product == Mul(opt.zcount, zsize)
           len == IF Less(blksectors, Add(opt.zsector, product))
                  THEN Sub(blksectors, opt.zsector)
                  ELSE product
           range == [sector |-> opt.zsector, nr_sectors |-> len]
       IN  /\ zlen' = len
           /\ za' = range
           /\ ioctls' = Append(ioctls, [request |-> "BLKRESETZONE",
                                        arg |-> range])
    /\ \E res \in IoctlResults :
        /\ rc' = res
        /\ IF res = -1
           THEN Fail("BLKRESETZONE ioctl failed")
           ELSE Goto("finish")
    /\ UNCHANGED <<argv, host_be, opt, blksize, secsize, stdout, zsize,
                   blksectors, reportVars, probeVars>>

\* Lines 293-294.
ResetFinish ==
    /\ pc = "finish"
    /\ status' = EXIT_SUCCESS
    /\ pc' = "exit"
    /\ UNCHANGED <<argv, host_be, opt, blksize, secsize, rc, ioctls, stdout,
                   stderr, za, reportVars, resetVars, probeVars>>

ResetNext ==
    \/ ResetGetopt
    \/ ResetGetZoneSize
    \/ ResetOpenDevice
    \/ ResetCheck
    \/ ResetIoctl
    \/ ResetFinish

SpecReset == ResetInit /\ [][ResetNext]_vars

\* C5 (as claimed): for a zone size Z > 0, a start sector that is no exact
\* multiple of Z is rejected and never reaches BLKRESETZONE, and a start
\* sector that is an exact multiple of Z is not rejected for misalignment.
C5_AlignmentIsExactMultiple ==
    ~IsZero(zsize) =>
        /\ ioctls # <<>> => ModSmall(opt.zsector, ToNat(zsize)) = 0
        /\ (\E i \in 1..Len(stderr) :
                stderr[i] = "zone is not aligned to zone size")
              => ModSmall(opt.zsector, ToNat(zsize)) # 0

\* C6 (as claimed): the range handed to BLKRESETZONE ends, without
\* wrap-around, at or before the device capacity in 512-byte sectors,
\* blksize / 512.
C6_RangeWithinCapacity ==
    \A i \in 1..Len(ioctls) :
        LET range == ioctls[i].arg
            finish == Add(range.sector, range.nr_sectors)
        IN  /\ ~Less(finish, range.sector)
            /\ ~Less(DivSmall(blksize, 512), finish)

(***************************************************************************)
(* libblkid: the ZDM superblock probe.                                     *)
(*                                                                         *)
(* struct zdm_super_block has 176 bytes where uint64_t is aligned to 8:    *)
(* crc32 0-3, reserved 4-7, magic 8-23, uuid 24-39, version 40-43,         *)
(* padding 44-47, sect_start 48-55, ..., label 92-155, padding 156-159,    *)
(* data_start 160-167, zone_size 168-175.  Bytes are numbered from 1 in    *)
(* the model.                                                              *)
(***************************************************************************)
SizeofSuperBlock == 176
BLKID_PROBE_OK == 0
BLKID_PROBE_NONE == 1

\* Different superblock contents offered to the probe.
MaxPayloads == 2

zdm_magic ==
    << 122, 111, 110, 101, 99, 68, 69, 86,
       130, 101, 245, 127, 72, 186, 109, 129 >>

RECURSIVE BitXor(_, _)
BitXor(a, b) ==
    IF a = 0 THEN b
    ELSE IF b = 0 THEN a
    ELSE ((a + b) % 2) + 2 * BitXor(a \div 2, b \div 2)

Xor32(x, y) == [i \in 1..4 |-> BitXor(x[i], y[i])]

AllOnes32 == <<255, 255, 255, 255>>

\* The table of the reflected CRC-32, polynomial 0xEDB88320.
CrcPolynomial == <<237, 184, 131, 32>>
Shr1(c) ==
    [i \in 1..4 |-> (c[i] \div 2) + (IF i > 1 THEN (c[i - 1] % 2) * 128 ELSE 0)]
RECURSIVE CrcBits(_, _)
CrcBits(c, n) ==
    IF n = 0 THEN c
    ELSE CrcBits(IF c[4] % 2 = 1 THEN Xor32(Shr1(c), CrcPolynomial)
                 ELSE Shr1(c), n - 1)
crc32_tab == [b \in 0..255 |-> CrcBits(<<0, 0, 0, b>>, 8)]

\* One byte of the table-driven update:
\* crc = crc32_tab[(crc ^ byte) & 0xff] ^ (crc >> 8)
CrcByte(c, b) ==
    Xor32(crc32_tab[BitXor(c[4], b)], <<0, c[1], c[2], c[3]>>)

\* The update over bytes from..to of buf.
RECURSIVE CrcRun(_, _, _, _)
CrcRun(c, buf, from, to) ==
    IF from > to THEN c
    ELSE CrcRun(CrcByte(c, buf[from]), buf, from + 1, to)

\* crc32(seed, buf, len) of lib/crc32.c: the table-driven reflected CRC-32,
\* with neither the initial nor the final complement.  The bytes are taken
\* in runs of 16 so that the evaluation stays shallow.
crc32(seed, buf, len) ==
    LET crc[j \in 0..((len + 15) \div 16)] ==
            IF j = 0 THEN seed
            ELSE LET c == crc[j - 1]
                 IN  IF c[1] >= 0
                     THEN CrcRun(c, buf, 16 * j - 15, Min(16 * j, len))
                     ELSE c
    IN  crc[(len + 15) \div 16]

\* le32_to_cpu of include/bitops.h: a byte swap on a big-endian host.
le32_to_cpu(v) == IF host_be THEN Reverse(v) ELSE v

\* blkid_probe_verify_csum(pr, csum, expected): TRUE for a return value of
\* 1, a verified checksum.
blkid_probe_verify_csum(csum, expected) == csum = expected

\* The bytes of the crc32 field, and a block with that field replaced.
ChecksumField(b) == SubSeq(b, 1, 4)
WithChecksumField(b, f) == f \o SubSeq(b, 5, Len(b))

\* A checksum computation that leaves the stored checksum in place.
ZeroedChecksumKept(b) == b

\* zdm_crc32 line 49: sblk->crc32 = 0u
ZeroedChecksum(b) == WithChecksumField(b, <<0, 0, 0, 0>>)

\* zdm_crc32 line 50: crc32(~0u, data, sz) ^ ~0u
Checksum(b) == Xor32(crc32(AllOnes32, b, SizeofSuperBlock), AllOnes32)

\* Line 63 with the sign of errno forgotten.
ReadFailureUnsigned(e) == IF e # 0 THEN e ELSE BLKID_PROBE_NONE

\* probe_zdm line 63: errno ? -errno : BLKID_PROBE_NONE
ReadFailure(e) == IF e # 0 THEN -e ELSE BLKID_PROBE_NONE

\* The superblock a ZDM writer leaves on the device: payload k with the
\* magic in place and the CRC-32 of the block, computed with the checksum
\* field zero, stored little-endian.
Payload(k) ==
    [i \in 1..SizeofSuperBlock |->
        IF i <= 8 THEN 0
        ELSE IF i <= 24 THEN zdm_magic[i - 8]
        ELSE IF i <= 40 THEN (16 * k + i) % 256
        ELSE (i * (k + 2)) % 251]
Faithful(k) ==
    WithChecksumField(Payload(k), Reverse(Checksum(Payload(k))))

\* One byte changed: byte `at` (from 1) xor-ed with `by`.
Corrupted(b, at, by) == [b EXCEPT ![at] = BitXor(b[at], by)]

\* Offsets (from 1) outside the checksum field and outside the magic, which
\* has to match for the probe to be called: reserved, uuid, version,
\* padding, sect_start, label, padding, data_start, zone_size.
PayloadOffsets == {5, 8, 25, 40, 41, 45, 49, 93, 156, 157, 161, 176}
ChecksumOffsets == 1..4
Damages == {1, 128, 255}

\* The blocks offered: faithful ones, and faithful ones with one byte
\* changed.  at = 0 marks a block left as written.
OfferedBlocks ==
    { [payload |-> k, at |-> 0, by |-> 0, block |-> Faithful(k)] :
        k \in 1..MaxPayloads }
    \cup
    { [payload |-> k, at |-> at, by |-> by,
       block |-> Corrupted(Faithful(k), at, by)] :
        k \in 1..MaxPayloads, at \in PayloadOffsets \cup ChecksumOffsets,
        by \in Damages }

\* errno after a failed blkid_probe_get_sb: unset, EIO, ENOMEM.
ReadErrnos == {0, 5, 12}
\* Results of blkid_probe_set_uuid: stored, -ENOMEM.
SetUuidResults == {0, -12}

ProbeInit ==
    /\ pc = "get_sb"
    /\ argv \in OfferedBlocks
    /\ host_be \in BOOLEAN
    /\ opt = <<>>
    /\ blksize = None
    /\ secsize = 0
    /\ rc = 0
    /\ ioctls = <<>>
    /\ stdout = <<>>
    /\ stderr = <<>>
    /\ status = "running"
    /\ NoZoneAction
    /\ NoReportRun
    /\ NoProbe

\* probe_zdm lines 61-63: sblk stays empty for a NULL superblock.
ProbeGetSb ==
    /\ pc = "get_sb"
    /\ \E ok \in BOOLEAN, e \in ReadErrnos :
        IF ok
        THEN /\ sblk' = argv.block
             /\ pc' = "crc_zero"
             /\ UNCHANGED <<errno, status>>
        ELSE /\ errno' = e
             /\ status' = ReadFailure(e)
             /\ pc' = "returned"
             /\ UNCHANGED sblk
    /\ UNCHANGED <<argv, host_be, opt, blksize, secsize, rc, ioctls, stdout,
                   stderr, za, calc, icrc, pr, reportVars, resetVars>>

\* zdm_crc32 lines 44-49.
ZdmCrcZero ==
    /\ pc = "crc_zero"
    /\ icrc' = Load(ChecksumField(sblk))
    /\ sblk' = ZeroedChecksum(sblk)
    /\ pc' = "crc_calc"
    /\ UNCHANGED <<argv, host_be, opt, blksize, secsize, rc, ioctls, stdout,
                   stderr, status, za, errno, calc, pr, reportVars,
                   resetVars>>

\* zdm_crc32 line 50.
ZdmCrcCalc ==
    /\ pc = "crc_calc"
    /\ calc' = Checksum(sblk)
    /\ pc' = "crc_restore"
    /\ UNCHANGED <<argv, host_be, opt, blksize, secsize, rc, ioctls, stdout,
                   stderr, status, za, sblk, errno, icrc, pr, reportVars,
                   resetVars>>

\* A checksum computation that leaves the checksum field zero.
ChecksumNotRestored(b, c) == b

\* zdm_crc32 line 51: sblk->crc32 = icrc
ChecksumRestored(b, c) == WithChecksumField(b, Store(c))

\* zdm_crc32 lines 51-53.
ZdmCrcRestore ==
    /\ pc = "crc_restore"
    /\ sblk' = ChecksumRestored(sblk, icrc)
    /\ pc' = "verify"
    /\ UNCHANGED <<argv, host_be, opt, blksize, secsize, rc, ioctls, stdout,
                   stderr, status, za, errno, calc, icrc, pr, reportVars,
                   resetVars>>

\* probe_zdm lines 65-66.
ProbeVerifyCsum ==
    /\ pc = "verify"
    /\ IF blkid_probe_verify_csum(calc,
                                  le32_to_cpu(Load(ChecksumField(sblk))))
       THEN /\ pc' = "set_uuid"
            /\ UNCHANGED status
       ELSE /\ status' = BLKID_PROBE_NONE
            /\ pc' = "returned"
    /\ UNCHANGED <<argv, host_be, opt, blksize, secsize, rc, ioctls, stdout,
                   stderr, za, probeVars, reportVars, resetVars>>

\* probe_zdm lines 68-71.
ProbeSetUuid ==
    /\ pc = "set_uuid"
    /\ \E res \in SetUuidResults :
        /\ rc' = res
        /\ IF res < 0
           THEN /\ status' = BLKID_PROBE_NONE
                /\ UNCHANGED pr
           ELSE /\ status' = BLKID_PROBE_OK
                /\ pr' = [pr EXCEPT !.UUID = SubSeq(sblk, 25, 40)]
    /\ pc' = "returned"
    /\ UNCHANGED <<argv, host_be, opt, blksize, secsize, ioctls, stdout,
                   stderr, za, sblk, errno, calc, icrc, reportVars,
                   resetVars>>

ProbeNext ==
    \/ ProbeGetSb
    \/ ZdmCrcZero
    \/ ZdmCrcCalc
    \/ ZdmCrcRestore
    \/ ProbeVerifyCsum
    \/ ProbeSetUuid

SpecProbe == ProbeInit /\ [][ProbeNext]_vars

\* The stored checksum of the offered block as a number (it is kept
\* little-endian on the device), and the CRC-32 of the offered block taken
\* with its checksum field zero.
StoredChecksum == Reverse(ChecksumField(argv.block))
ReferenceChecksum ==
    Xor32(crc32(AllOnes32,
                <<0, 0, 0, 0>> \o SubSeq(argv.block, 5, SizeofSuperBlock),
                SizeofSuperBlock),
          AllOnes32)

\* C2: for a superblock that was read, probe_zdm returns BLKID_PROBE_OK only
\* if the CRC-32 over the whole structure with the checksum field zeroed
\* equals the stored checksum; a block with one byte changed, outside the
\* checksum field or inside it, is rejected with BLKID_PROBE_NONE; a
\* faithful block is accepted (it fails only if the UUID cannot be stored).
C2_ChecksumGate ==
    (pc = "returned" /\ sblk # <<>>) =>
        /\ status = BLKID_PROBE_OK => ReferenceChecksum = StoredChecksum
        /\ argv.at # 0 => status = BLKID_PROBE_NONE
        /\ argv.at = 0 =>
            \/ status = BLKID_PROBE_OK
            \/ rc < 0 /\ status = BLKID_PROBE_NONE

\* C2: a faithful block has been accepted.
C2_Witness ==
    /\ pc = "returned"
    /\ argv.at = 0
    /\ sblk = argv.block
    /\ calc = StoredChecksum
    /\ status = BLKID_PROBE_OK

\* The UUID is on the probe only after the checksum was verified and the
\* probe returned BLKID_PROBE_OK.
UuidOnlyAfterVerification ==
    pr.UUID # <<>> =>
        /\ pc = "returned"
        /\ status = BLKID_PROBE_OK
        /\ calc = StoredChecksum
        /\ pr.UUID = SubSeq(argv.block, 25, 40)

\* C3 as stated: every failing outcome of probe_zdm returns
\* BLKID_PROBE_NONE, and the UUID is set only after the checksum was
\* verified.
C3_EveryFailureNotFound ==
    /\ (pc = "returned" /\ status # BLKID_PROBE_OK) =>
            status = BLKID_PROBE_NONE
    /\ UuidOnlyAfterVerification

\* C3 amended: a failing outcome returns BLKID_PROBE_NONE, except that a
\* superblock that could not be read while errno is set returns -errno; the
\* UUID is set only after the checksum was verified.
C3_FailureNotFoundOrErrno ==
    /\ (pc = "returned" /\ status # BLKID_PROBE_OK) =>
            IF sblk = <<>> /\ errno # 0
            THEN status = -errno
            ELSE status = BLKID_PROBE_NONE
    /\ UuidOnlyAfterVerification

\* C3: the superblock could not be read, errno was EIO, and the probe
\* returned -EIO.
C3_Witness ==
    /\ pc = "returned"
    /\ sblk = <<>>
    /\ errno = 5
    /\ status = -5

(***************************************************************************)
(* blkreport: what the claims speak of.                                    *)
(***************************************************************************)
\* The zone lines printed so far, and their numbers without the texts.
PrintedZones == SelectSeq(stdout, LAMBDA l : l.kind = "zone")
ZoneLines ==
    [k \in 1..Len(PrintedZones) |->
        LET l == PrintedZones[k]
        IN  [kind |-> "zone", index |-> l.index, start |-> l.start,
             len |-> l.len, wptr |-> l.wptr, reset |-> l.reset,
             nonseq |-> l.nonseq, cond |-> l.cond, type |-> l.type]]

\* print_zones has run to its end on a report the kernel returned.
Printed == pc \in {"return", "exit"} /\ ioctls # <<>> /\ rc # -1

\* The index of the first descriptor of the buffer whose length is 0 (in
\* either byte order; the entry after the last one written is zero).
FirstZeroLength(info) ==
    CHOOSE i \in 0..Len(info.descriptors) :
        /\ IsZero(Descriptor(info, i).length)
        /\ \A j \in 0..(i - 1) : ~IsZero(Descriptor(info, j).length)

\* min(N, K, first zero length) for the decoded declared count N and
\* K = (S - 64) / 64.
ExpectedZoneCount(info, S) ==
    LET N == endian32(Load(info.descriptor_count))
        K == (S - 64) \div 64
        NK == IF Less(U32(K), N) THEN K ELSE ToNat(N)
    IN  Min(NK, FirstZeroLength(info))

\* C1: once print_zones has run on a buffer of S bytes, the zone lines
\* printed are those of the descriptors 0 .. m-1, in order, with
\* m = min(N, K, index of the first zero length), K = (S - 64) / 64; a
\* declared count above K is truncated and the run still ends in success.
C1_TruncationInvariant ==
    Printed =>
        /\ ToNat(length) \in 512..524288 /\ ToNat(length) % 512 = 0
        /\ Len(ZoneLines) = ExpectedZoneCount(zone_info, ToNat(length))
        /\ \A i \in 1..Len(ZoneLines) :
              /\ ZoneLines[i].index = i - 1
              /\ ZoneLines[i] = ZoneLine(zone_info, i - 1)
        /\ (pc = "exit" /\ rc = 0) => status = EXIT_SUCCESS

\* C1 witness: a declared count above K = 7 was truncated and exactly the
\* 7 descriptors the buffer holds were printed.
C1_Witness ==
    /\ Printed
    /\ ToNat(length) = 512
    /\ Less(U32(7), endian32(Load(zone_info.descriptor_count)))
    /\ Len(ZoneLines) = 7
    /\ \E i \in 1..Len(stdout) : stdout[i].kind = "truncating"

\* The enumerated report filters of the usage text.
EnumeratedFilters ==
    { U64(n) : n \in (0..7) \cup {16, 17, 63} }

\* C7 (as claimed): BLKREPORT is issued only for a report option that is
\* one of the enumerated filters 0..7, 0x10, 0x11, 0x3f.
C7_OnlyEnumeratedIssued ==
    ioctls # <<>> => opt.ropt \in EnumeratedFilters

\* The length the claim expects for a 64-bit request L: L rounded down to a
\* multiple of 512, then clamped to [512, 524288].
ExpectedLength(L) ==
    LET rounded == Mul(DivSmall(L, 512), U64(512))
    IN  IF Less(rounded, U64(512)) THEN U32(512)
        ELSE IF Less(U64(MAX_REPORT_LEN), rounded) THEN U32(MAX_REPORT_LEN)
        ELSE Trunc32(rounded)

\* C8 (as claimed): the buffer size handed to do_report is the requested
\* 64-bit length rounded down to a multiple of 512 and clamped to
\* [512, 524288].
C8_LengthRoundedAndClamped ==
    (pc \notin {"getopt", "open", "check_offset", "clamp"} /\ argv.l # None
     /\ blksize # None /\ pc # "exit")
        => length = ExpectedLength(argv.l)

\* C9: after test_endian, with no -e given the data is declared
\* little-endian exactly when the first descriptor's length field equals a
\* canonical zone length, big-endian otherwise (also for an all-zero
\* descriptor); with -e given the declared endianness is the supplied one
\* and nothing is reported as detected.
C9_EndianResolution ==
    pc \in {"print_zones", "loop"} =>
        LET len == Load(Descriptor(zone_info, 0).length)
        IN  IF argv.e = None
            THEN /\ is_big_endian = (IF len \in CanonicalLengths THEN 0 ELSE 1)
                 /\ IsZero(len) => is_big_endian = 1
            ELSE /\ is_big_endian = LowInt(argv.e)
                 /\ \A i \in 1..Len(stdout) : stdout[i].kind # "detected"

\* C9 witness: no -e was given, the first length field reads as a
\* canonical length and test_endian declared little-endian.
C9_Witness ==
    /\ pc = "print_zones"
    /\ argv.e = None
    /\ Load(Descriptor(zone_info, 0).length) = U64(1048576)
    /\ is_big_endian = 0

\* The zone lines of the logical report r encoded in native byte order and
\* decoded with no swap, for a buffer of S bytes.
NativeZoneLines(r, S) ==
    LET nat(v) == Load(Store(v))
        zerosAt == { i \in 1..Len(r.zones) : IsZero(nat(r.zones[i].length)) }
        firstZero == IF zerosAt = {} THEN Len(r.zones)
                     ELSE (CHOOSE i \in zerosAt : \A j \in zerosAt : i <= j) - 1
        N == nat(r.descriptor_count)
        K == (S - 64) \div 64
        NK == IF Less(U32(K), N) THEN K ELSE ToNat(N)
        m == Min(NK, firstZero)
    IN  [i \in 1..m |->
            [kind |-> "zone", index |-> i - 1,
             start |-> nat(r.zones[i].lba_start),
             len |-> nat(r.zones[i].length),
             wptr |-> Sub(nat(r.zones[i].lba_wptr), nat(r.zones[i].lba_start)),
             reset |-> r.zones[i].flags % 2,
             nonseq |-> (r.zones[i].flags \div 2) % 2,
             cond |-> r.zones[i].flags \div 16,
             type |-> r.zones[i].type % 16]]

\* The first descriptor's length field of the report the kernel returned,
\* as test_endian reads it.
ProbedLength == Load(Descriptor(zone_info, 0).length)

\* C10 (as claimed): a report in big-endian wire format, decoded by
\* test_endian and the endian32/endian64 extraction, gives the zone values
\* the same logical report gives when encoded in native order and decoded
\* with no swap.
C10_RoundTripAlways ==
    (Printed /\ dev.wire = "be" /\ argv.e = None)
        => ZoneLines = NativeZoneLines(dev.report, ToNat(length))

\* C10 (amended): the round trip holds unless the host is little-endian and
\* the first descriptor's length field of the big-endian data, read in host
\* order, is one of the canonical lengths of test_endian.
C10_RoundTripUnlessMisdetected ==
    (Printed /\ dev.wire = "be" /\ argv.e = None
     /\ (host_be \/ ProbedLength \notin CanonicalLengths))
        => ZoneLines = NativeZoneLines(dev.report, ToNat(length))

\* C10 witness: on a little-endian host a big-endian report with two zones
\* was probed, swapped and printed with its logical values.
C10_Witness ==
    /\ Printed /\ dev.wire = "be" /\ argv.e = None /\ ~host_be
    /\ is_big_endian = 1
    /\ Len(ZoneLines) = 2
    /\ ZoneLines[2].start = U64(1048576)
    /\ ZoneLines = NativeZoneLines(dev.report, ToNat(length))

\* The last byte offset, plus one, of descriptor i in the report buffer.
DescriptorEnd(i) == SizeofReport + SizeofDescriptor * (i + 1)

C12_ZeroZoneSizeFails ==
    (pc \notin {"getopt", "zone_size"} /\ IsZero(zsize)) =>
        /\ pc = "exit"
        /\ status = EXIT_FAILURE
        /\ stderr = <<"Unable to determine zone size">>
        /\ blksize = None
        /\ ioctls = <<>>

\* C12 witness: the lookup returned 0 and the run ended in failure.
C12_Witness ==
    /\ pc = "exit"
    /\ IsZero(zsize)
    /\ status = EXIT_FAILURE
    /\ ioctls = <<>>

\* C13 (as claimed): a tool exits with status 0 exactly when its zone ioctl
\* was issued and did not return -1, and with a non-zero status after every
\* validation or device failure; in blkreport a report that was obtained
\* and printed leads to exit status 0.
C13_ExitStatus ==
    pc = "exit" =>
        /\ status = EXIT_SUCCESS <=> (ioctls # <<>> /\ rc # -1)
        /\ stderr # <<>> => status # EXIT_SUCCESS
        /\ (\E k \in 1..Len(stdout) : stdout[k].kind = "header")
                => status = EXIT_SUCCESS

\* The messages of the failures that end a run before its zone ioctl: the
\* device could not be opened or queried, or a check of the request failed.
FailuresBeforeIoctl ==
    { "cannot open or query the device",
      "offset is not aligned to sector size",
      "offset is greater than device size",
      "invalid report option for device",
      "All expects zone to be 0",
      "Unable to determine zone size",
      "zone is not aligned to zone size",
      "zone is too large for device" }

\* The run has ended and none of its checks before the ioctl failed.
PassedValidation ==
    /\ pc = "exit"
    /\ \A k \in 1..Len(stderr) : stderr[k] \notin FailuresBeforeIoctl

\* Once the zone ioctl was issued it is not issued again.
NoRetry == [][ioctls # <<>> => ioctls' = ioctls]_vars

\* C14 (as claimed): in every run the zone ioctl is issued at most once, it
\* is issued exactly once in a run that passes validation, and once issued
\* (failed or not) it is never issued again.
C14_IssuedExactlyOnce ==
    /\ [](Len(ioctls) <= 1 /\ (PassedValidation => Len(ioctls) = 1))
    /\ NoRetry

\* C14 (amended): as claimed, except that a run of blkreport that passes
\* validation and cannot allocate its report buffer issues no ioctl and
\* ends in failure.
C14_IssuedOnceUnlessNoBuffer ==
    /\ [](/\ Len(ioctls) <= 1
          /\ PassedValidation =>
                \/ Len(ioctls) = 1
                \/ ioctls = <<>> /\ rc = -4 /\ status = EXIT_FAILURE)
    /\ NoRetry

\* C14 witness: the one BLKREPORT of a run that passed validation failed,
\* and the run ended in failure with that one ioctl issued.
C14_Witness ==
    /\ PassedValidation
    /\ Len(ioctls) = 1
    /\ ioctls[1].request = "BLKREPORT"
    /\ rc = -1
    /\ status = EXIT_FAILURE

\* C15 (as claimed): the max_lba of the header line print_zones prints is
\* the envelope's maximum_lba decoded in the resolved endianness, with its
\* top 16 bits cleared.
C15_MaxLbaMaskedAfterDecoding ==
    \A k \in 1..Len(stdout) :
        stdout[k].kind = "header" =>
            stdout[k].max_lba =
                And(endian64(Load(zone_info.maximum_lba)),
                    <<0, 0, 255, 255, 255, 255, 255, 255>>)

\* C16: zdm_crc32 leaves the superblock as it found it: while it runs only
\* the checksum field differs from the block that was read, and after it
\* has returned, and when probe_zdm has returned, every byte of the
\* structure, the stored checksum included, has the value it was read with.
C16_BlockUnchanged ==
    sblk # <<>> =>
        /\ Len(sblk) = SizeofSuperBlock
        /\ SubSeq(sblk, 5, SizeofSuperBlock)
              = SubSeq(argv.block, 5, SizeofSuperBlock)
        /\ pc \in {"crc_zero", "verify", "set_uuid", "returned"} =>
              sblk = argv.block

\* C16 witness: zdm_crc32 has zeroed and restored a checksum field that is
\* not zero, and probe_zdm has returned with the block as it was read.
C16_Witness ==
    /\ pc = "returned"
    /\ sblk = argv.block
    /\ ChecksumField(sblk) # <<0, 0, 0, 0>>
    /\ calc # U32(0)

\* C17 (as claimed): every lookup print_zones makes into a text table uses
\* an index inside the table: same_field & 0x0f into same_text, type & 0xF
\* into type_text, the 4-bit zone condition into condition_str.
C17_LookupsInsideTables ==
    /\ pc = "print_zones" =>
          BitAnd(zone_info.same_field, 15) < Len(same_text)
    /\ (pc = "loop" /\ Less(U32(iter), count) /\ ~ZoneBreak(zone_info, iter))
          => /\ ZoneLine(zone_info, iter).type < Len(type_text)
             /\ ZoneLine(zone_info, iter).cond < Len(condition_str)

\* The label enum blk_zone_state gives a zone condition code: 0 cv, 1 e0,
\* 2 Oi, 3 Oe, 4 Cl, 0x5..0xC reserved (xN), 0xd ro, 0xe fu, 0xf OL.
StateLabels ==
    << "cv", "e0", "Oi", "Oe", "Cl", "x5", "x6", "x7", "x8", "x9", "xA", "xB",
       "xC", "ro", "fu", "OL" >>

\* C18 (as claimed): the label printed for a zone with condition code c is
\* the one enum blk_zone_state assigns to c.
C18_ConditionLabels ==
    \A k \in 1..Len(PrintedZones) :
        PrintedZones[k].zcond_str = StateLabels[PrintedZones[k].cond + 1]

====
